---- MODULE Spec2Model ----
(***************************************************************************)
(* L0 gradient-norm image smoothing                                        *)
(* (src/image/L0ImageSmoothing/l0_image_smoothing.py).                     *)
(*                                                                         *)
(* Tensors are records [shape |-> <<d0, d1, ...>>, at |-> f] where f maps  *)
(* every 0-based index tuple of the shape to a number.                     *)
(*                                                                         *)
(* Numbers.  Image samples and the working image S are kept as integer     *)
(* numerators over 2 (a stored 255 is the sample 127.5, a stored 1 is the  *)
(* value 0.5), so h, v are in halves and hv, t are in quarters; every      *)
(* value that occurs is exactly representable in float32, so the integer   *)
(* arithmetic is the program's arithmetic.  _lambda, beta and beta_max are *)
(* kept as integer numerators over 100 (a stored 2 is 0.02).               *)
(*                                                                         *)
(* The values of the 2-D Fourier transforms (otf_fx, otf_fy, numer1,       *)
(* denom2, denom) are not carried: the program computes them and never     *)
(* reads them again.  What is carried is the array handed to fft2d.        *)
(***************************************************************************)
EXTENDS Integers, Sequences, FiniteSets, TLC

(***************************************************************************)
(* Bounds of the model.                                                    *)
(***************************************************************************)
\* image samples are level * 127.5 for level in 0..MaxLevel
MaxLevel == 1
\* beta_max ranges over 1..MaxBetaMax hundredths
MaxBetaMax == 5
\* cap on the counter of loop-body entries
MaxIters == 3

\* img.shape of the images examined: well-formed ones, ones with an axis of
\* length 0 or 1, and arrays that are not 3-dimensional
Shapes ==
    { <<2, 2, 1>>, <<2, 3, 1>>, <<3, 2, 1>>, <<2, 2, 2>>,
      <<1, 2, 1>>, <<2, 1, 1>>, <<1, 1, 1>>,
      <<0, 2, 1>>, <<2, 0, 1>>, <<2, 2, 0>>,
      <<2, 2>>, <<2, 2, 1, 1>> }

\* _lambda and kappa of the runs examined (hundredths, resp. units)
Lambdas == {1, 2}
Kappas == {2, 3}

\* the defaults of l0_image_smoothing: _lambda=2e-2, kappa=2.0, beta_max=1e5
DefaultLambda == 2
DefaultKappa == 2
DefaultBetaMax == 10000000

(***************************************************************************)
(* Tensors                                                                 *)
(***************************************************************************)
RECURSIVE Idx(_)
\* the 0-based index tuples of a shape
Idx(shape) ==
    IF shape = << >> THEN { << >> }
    ELSE { <<i>> \o r : i \in 0 .. (Head(shape) - 1), r \in Idx(Tail(shape)) }

\* length of `axis` (0-based, as in the source) of a tensor
Dim(T, axis) == T.shape[axis + 1]

\* tf.zeros_like
zeros_like(T) == [shape |-> T.shape, at |-> [x \in Idx(T.shape) |-> 0]]

\* elementwise a + b, a - b, -a, a ** 2 of tensors of one shape
TAdd(A, B) == [shape |-> A.shape, at |-> [x \in Idx(A.shape) |-> A.at[x] + B.at[x]]]
TSub(A, B) == [shape |-> A.shape, at |-> [x \in Idx(A.shape) |-> A.at[x] - B.at[x]]]
TNeg(A) == [shape |-> A.shape, at |-> [x \in Idx(A.shape) |-> 0 - A.at[x]]]
TPow2(A) == [shape |-> A.shape, at |-> [x \in Idx(A.shape) |-> A.at[x] * A.at[x]]]

\* a slice bound as Python resolves it on an axis of length n
PyBound(k, n) ==
    LET k1 == IF k < 0 THEN k + n ELSE k
    IN IF k1 < 0 THEN 0 ELSE IF k1 > n THEN n ELSE k1

\* T[start:stop] taken along `axis` (0-based), every other axis whole
Slice(T, axis, start, stop) ==
    LET n == Dim(T, axis)
        lo == PyBound(start, n)
        hi == PyBound(stop, n)
        len == IF hi > lo THEN hi - lo ELSE 0
        shape == [T.shape EXCEPT ![axis + 1] = len]
    IN [shape |-> shape,
        at |-> [x \in Idx(shape) |->
                  T.at[[x EXCEPT ![axis + 1] = x[axis + 1] + lo]]]]

\* tf.concat([A, B], axis)
Concat(A, B, axis) ==
    LET na == Dim(A, axis)
        shape == [A.shape EXCEPT ![axis + 1] = na + Dim(B, axis)]
    IN [shape |-> shape,
        at |-> [x \in Idx(shape) |->
                  IF x[axis + 1] < na THEN A.at[x]
                  ELSE B.at[[x EXCEPT ![axis + 1] = x[axis + 1] - na]]]]

\* tf.roll(T, shift, axis): the entry at i moves to (i + shift) mod n
Roll(T, shift, axis) ==
    LET n == Dim(T, axis)
    IN [shape |-> T.shape,
        at |-> [x \in Idx(T.shape) |->
                  T.at[[x EXCEPT ![axis + 1] = (x[axis + 1] - shift) % n]]]]

RECURSIVE SumTo(_, _)
\* f[0] + ... + f[n-1]
SumTo(f, n) == IF n = 0 THEN 0 ELSE f[n - 1] + SumTo(f, n - 1)

\* tf.math.reduce_sum(T, axis=2) of a 3-D tensor
reduce_sum2(T) ==
    LET shape == <<Dim(T, 0), Dim(T, 1)>>
    IN [shape |-> shape,
        at |-> [x \in Idx(shape) |->
                  SumTo([c \in 0 .. (Dim(T, 2) - 1) |-> T.at[x \o <<c>>]], Dim(T, 2))]]

(***************************************************************************)
(* _zero_pad_fxypsf and _fxypsf_to_otf                                     *)
(***************************************************************************)
Raise(kind) == [tag |-> "error", kind |-> kind]

\* tf.sparse.to_dense(tf.SparseTensor(indices, values, shape), default_value=0):
\* the SparseTensor needs as many values as indices, and to_dense rejects an
\* index outside the dense shape
SparseToDense(indices, values, shape) ==
    IF Len(indices) # Len(values) THEN Raise("ValueError")
    ELSE IF \E k \in 1 .. Len(indices) : indices[k] \notin Idx(shape)
         THEN Raise("InvalidArgumentError")
    ELSE [tag |-> "dense",
          shape |-> shape,
          at |-> [x \in Idx(shape) |->
                    IF \E k \in 1 .. Len(indices) : indices[k] = x
                    THEN values[CHOOSE k \in 1 .. Len(indices) : indices[k] = x]
                    ELSE 0]]

\* psf[0]: the first row of a 2-D kernel
Row0(psf) == [k \in 1 .. Dim(psf, 1) |-> psf.at[<<0, k - 1>>]]
\* psf[:, 0]: the first column of a 2-D kernel
Col0(psf) == [k \in 1 .. Dim(psf, 0) |-> psf.at[<<k - 1, 0>>]]

zero_pad_fxypsf(psf, shape) ==
    IF Dim(psf, 0) = 1
    THEN SparseToDense(<< <<0, 0>>, <<0, 1>> >>, Row0(psf), shape)
    ELSE IF Dim(psf, 0) = 2
    THEN SparseToDense(<< <<0, 0>>, <<1, 0>> >>, Col0(psf), shape)
    ELSE Raise("UnboundLocalError")

\* shift of the roll along an axis of the kernel of length axis_sz:
\* Python's -axis_sz // 2 is (-axis_sz) // 2, floor division
RollShift(axis_sz) == (0 - axis_sz) \div 2

\* _fxypsf_to_otf up to the array that is cast and handed to tf.signal.fft2d
fxypsf_to_otf(psf, target_shape) ==
    LET psf_padded == zero_pad_fxypsf(psf, <<target_shape[1], target_shape[2]>>)
    IN IF psf_padded.tag = "error" THEN psf_padded
       ELSE LET t0 == [shape |-> psf_padded.shape, at |-> psf_padded.at]
                r0 == Roll(t0, RollShift(Dim(psf, 0)), 0)
                r1 == Roll(r0, RollShift(Dim(psf, 1)), 1)
            IN [tag |-> "dense", shape |-> r1.shape, at |-> r1.at]

(***************************************************************************)
(* State                                                                   *)
(***************************************************************************)
VARIABLES
    img,        \* the argument img: [shape, at], samples as numerators over 2
    _lambda,    \* the argument _lambda, hundredths
    kappa,      \* the argument kappa
    beta_max,   \* the argument beta_max, hundredths
    pc,         \* position in l0_image_smoothing
    S,          \* line 112
    fx_padded,  \* the array _fxypsf_to_otf(psf_fx, .) hands to fft2d, line 117
    fy_padded,  \* the array _fxypsf_to_otf(psf_fy, .) hands to fft2d, line 118
    beta,       \* lines 130, 208
    h_diff,     \* line 145
    v_diff,     \* line 158
    h,          \* lines 140, 149, 184
    v,          \* lines 153, 162, 187
    t,          \* line 166
    numer2,     \* lines 191, 198, 206
    iters,      \* number of times the body of the while loop was entered
    raised,     \* the exception that left the function, or "none"
    result,     \* what the call returned
    psf,        \* converter alone: the kernel given to _fxypsf_to_otf
    target,     \* converter alone: target.shape
    otf_in,     \* converter alone: the array handed to fft2d, or the error
    kpc         \* converter alone: position

vars ==
    << img, _lambda, kappa, beta_max, pc, S, fx_padded, fy_padded, beta,
       h_diff, v_diff, h, v, t, numer2, iters, raised, result,
       psf, target, otf_in, kpc >>

\* a name not yet bound
Unbound == [shape |-> << >>, at |-> << >>]
\* Python's None
None == [tag |-> "None"]

\* lines 115, 116
psf_fx == [shape |-> <<1, 2>>, at |-> (<<0, 0>> :> 1) @@ (<<0, 1>> :> (0 - 1))]
psf_fy == [shape |-> <<2, 1>>, at |-> (<<0, 0>> :> 1) @@ (<<1, 0>> :> (0 - 1))]

Samples == { 255 * level : level \in 0 .. MaxLevel }
Images == UNION { { [shape |-> s, at |-> f] : f \in [Idx(s) -> Samples] } : s \in Shapes }
Params ==
    { <<l, k, b>> : l \in Lambdas, k \in Kappas, b \in 1 .. MaxBetaMax }
        \cup { <<DefaultLambda, DefaultKappa, DefaultBetaMax>> }

(***************************************************************************)
(* The pieces of the loop body of l0_image_smoothing                       *)
(***************************************************************************)
\* line 112: tf.cast(img, dtype=tf.float32) / 255
Normalize(image) ==
    [shape |-> image.shape, at |-> [x \in Idx(image.shape) |-> image.at[x] \div 255]]

\* the loop condition with the boundary included
LoopCond_inclusive(b, bmax) == b <= bmax

\* line 131: the condition of the while loop
LoopCond(b, bmax) == b < bmax

\* line 142
first_hdiff(s) == TSub(Slice(s, 1, 1, Dim(s, 1)), Slice(s, 1, 0, 0 - 1))
\* line 144
last_hdiff(s) == TSub(Slice(s, 1, 0, 1), Slice(s, 1, Dim(s, 1) - 1, Dim(s, 1)))

\* the column differences with the wrap-around term reversed
Hdiff_reversed_wrap(s) == Concat(first_hdiff(s), TNeg(last_hdiff(s)), 1)

\* lines 145-148: h_diff
Hdiff(s) == Concat(first_hdiff(s), last_hdiff(s), 1)

\* line 155
first_vdiff(s) == TSub(Slice(s, 0, 1, Dim(s, 0)), Slice(s, 0, 0, 0 - 1))
\* line 157
last_vdiff(s) == TSub(Slice(s, 0, 0, 1), Slice(s, 0, Dim(s, 0) - 1, Dim(s, 0)))
\* lines 158-161: v_diff
Vdiff(s) == Concat(first_vdiff(s), last_vdiff(s), 0)

\* line 167: threshold = _lambda/beta, kept as a fraction
Threshold(l, b) == [num |-> l, den |-> b]

\* the comparison with the threshold itself counted as below
Below_inclusive(tq, thr) == tq * thr.den <= 4 * thr.num

\* line 170: t < threshold, for an entry tq of t (quarters)
Below(tq, thr) == tq * thr.den < 4 * thr.num

\* lines 170-171: the indices tf.where(t < threshold) lists
indices_true(tt, thr) == { x \in Idx(tt.shape) : Below(tt.at[x], thr) }

\* lines 175-177: the dense mask, tiled over the C channels
t_masked(indices, shape3) == [x \in Idx(shape3) |-> <<x[1], x[2]>> \in indices]

\* lines 182-187: h_temp[t_masked.numpy()] = 0
Masked(T, mask) ==
    [shape |-> T.shape, at |-> [x \in Idx(T.shape) |-> IF mask[x] THEN 0 ELSE T.at[x]]]

\* numer2_h with the inner differences left un-negated
numer2_h_unnegated(hh) ==
    Concat(TSub(Slice(hh, 1, Dim(hh, 1) - 1, Dim(hh, 1)), Slice(hh, 1, 0, 1)),
           TSub(Slice(hh, 1, 1, Dim(hh, 1)), Slice(hh, 1, 0, 0 - 1)), 1)

\* lines 192-197
numer2_h(hh) ==
    Concat(TSub(Slice(hh, 1, Dim(hh, 1) - 1, Dim(hh, 1)), Slice(hh, 1, 0, 1)),
           TNeg(TSub(Slice(hh, 1, 1, Dim(hh, 1)), Slice(hh, 1, 0, 0 - 1))), 1)

\* lines 200-205
numer2_v(vv) ==
    Concat(TSub(Slice(vv, 0, Dim(vv, 0) - 1, Dim(vv, 0)), Slice(vv, 0, 0, 1)),
           TNeg(TSub(Slice(vv, 0, 1, Dim(vv, 0)), Slice(vv, 0, 0, 0 - 1))), 0)

(***************************************************************************)
(* l0_image_smoothing                                                      *)
(***************************************************************************)
NoKernelRun ==
    /\ psf = Unbound
    /\ target = << >>
    /\ otf_in = None
    /\ kpc = "off"

Init ==
    /\ img = Unbound /\ _lambda = 0 /\ kappa = 0 /\ beta_max = 0
    /\ pc = "call"
    /\ S = Unbound /\ fx_padded = Unbound /\ fy_padded = Unbound
    /\ beta = 0
    /\ h_diff = Unbound /\ v_diff = Unbound /\ h = Unbound /\ v = Unbound
    /\ t = Unbound /\ numer2 = Unbound
    /\ iters = 0
    /\ raised = "none"
    /\ result = [tag |-> "pending"]
    /\ NoKernelRun

\* line 87: l0_image_smoothing is called with an image and the three parameters
Call ==
    /\ pc = "call"
    /\ img' \in Images
    /\ \E p \in Params : _lambda' = p[1] /\ kappa' = p[2] /\ beta_max' = p[3]
    /\ pc' = "start"
    /\ UNCHANGED << S, fx_padded, fy_padded, beta, h_diff, v_diff, h, v, t,
                    numer2, iters, raised, result, psf, target, otf_in, kpc >>

\* lines 110-130: everything before the loop
Setup ==
    /\ pc = "start"
    /\ IF Len(img.shape) # 3
       THEN \* line 110: N, M, C = img.shape cannot unpack
            /\ pc' = "raised" /\ raised' = "ValueError"
            /\ UNCHANGED << S, fx_padded, fy_padded, beta >>
       ELSE LET fx == fxypsf_to_otf(psf_fx, img.shape)
                fy == fxypsf_to_otf(psf_fy, img.shape)
            IN /\ S' = Normalize(img)
               /\ IF fx.tag = "error"
                  THEN /\ pc' = "raised" /\ raised' = fx.kind
                       /\ UNCHANGED << fx_padded, fy_padded, beta >>
                  ELSE IF fy.tag = "error"
                  THEN /\ pc' = "raised" /\ raised' = fy.kind
                       /\ fx_padded' = [shape |-> fx.shape, at |-> fx.at]
                       /\ UNCHANGED << fy_padded, beta >>
                  ELSE /\ fx_padded' = [shape |-> fx.shape, at |-> fx.at]
                       /\ fy_padded' = [shape |-> fy.shape, at |-> fy.at]
                       /\ beta' = 2 * _lambda
                       /\ pc' = "while" /\ UNCHANGED raised
    /\ UNCHANGED << img, _lambda, kappa, beta_max, h_diff, v_diff, h, v, t,
                    numer2, iters, result, psf, target, otf_in, kpc >>

\* lines 131-162: the loop is entered and h, v are computed from S
Gradient ==
    /\ pc = "while"
    /\ LoopCond(beta, beta_max)
    /\ iters < MaxIters
    /\ iters' = iters + 1
    /\ h_diff' = Hdiff(S)
    /\ h' = TAdd(zeros_like(S), h_diff')
    /\ v_diff' = Vdiff(S)
    /\ v' = TAdd(zeros_like(S), v_diff')
    /\ pc' = "hv"
    /\ UNCHANGED << img, _lambda, kappa, beta_max, S, fx_padded, fy_padded, beta,
                    t, numer2, raised, result, psf, target, otf_in, kpc >>

\* lines 164-187: h and v are thresholded
Threshold_hv ==
    /\ pc = "hv"
    /\ LET hv == TAdd(TPow2(h), TPow2(v))
           tt == reduce_sum2(hv)
           indices == indices_true(tt, Threshold(_lambda, beta))
           mask == t_masked(indices, S.shape)
       IN /\ t' = tt
          /\ IF indices = {}
             THEN \* line 175: tf.SparseTensor([], [], .) has indices of rank 1
                  /\ pc' = "raised" /\ raised' = "ValueError"
                  /\ UNCHANGED << h, v >>
             ELSE /\ h' = Masked(h, mask)
                  /\ v' = Masked(v, mask)
                  /\ pc' = "thresholded" /\ UNCHANGED raised
    /\ UNCHANGED << img, _lambda, kappa, beta_max, S, fx_padded, fy_padded, beta,
                    h_diff, v_diff, numer2, iters, result, psf, target, otf_in, kpc >>

\* lines 189-208: numer2 is built and beta is updated
ImageSubproblem ==
    /\ pc = "thresholded"
    /\ numer2' = TAdd(TAdd(zeros_like(S), numer2_h(h)), numer2_v(v))
    /\ beta' = beta_max
    /\ pc' = "while"
    /\ UNCHANGED << img, _lambda, kappa, beta_max, S, fx_padded, fy_padded,
                    h_diff, v_diff, h, v, t, iters, raised, result,
                    psf, target, otf_in, kpc >>

\* lines 131, 209: the loop is left and the function returns
Return ==
    /\ pc = "while"
    /\ ~LoopCond(beta, beta_max)
    /\ result' = None
    /\ pc' = "done"
    /\ UNCHANGED << img, _lambda, kappa, beta_max, S, fx_padded, fy_padded, beta,
                    h_diff, v_diff, h, v, t, numer2, iters, raised,
                    psf, target, otf_in, kpc >>

Next == Call \/ Setup \/ Gradient \/ Threshold_hv \/ ImageSubproblem \/ Return

Spec == Init /\ [][Next]_vars

(***************************************************************************)
(* _fxypsf_to_otf on its own: any small kernel against any target shape    *)
(***************************************************************************)
KernelShapes == { <<1, 2>>, <<2, 1>>, <<1, 1>>, <<1, 3>>, <<2, 2>>, <<3, 1>> }
Taps == { 0 - 1, 1 }
Kernels ==
    UNION { { [shape |-> s, at |-> f] : f \in [Idx(s) -> Taps] } : s \in KernelShapes }
Targets == { <<1, 2>>, <<2, 1>>, <<2, 2>>, <<2, 3>>, <<3, 2>>, <<3, 3>>, <<4, 4>> }

KernelInit ==
    /\ psf \in Kernels
    /\ target \in Targets
    /\ otf_in = None
    /\ kpc = "call"
    /\ img = Unbound /\ _lambda = 0 /\ kappa = 0 /\ beta_max = 0
    /\ pc = "off"
    /\ S = Unbound /\ fx_padded = Unbound /\ fy_padded = Unbound
    /\ beta = 0
    /\ h_diff = Unbound /\ v_diff = Unbound /\ h = Unbound /\ v = Unbound
    /\ t = Unbound /\ numer2 = Unbound
    /\ iters = 0
    /\ raised = "none"
    /\ result = [tag |-> "pending"]

\* lines 72-83: one call of _fxypsf_to_otf
Convert ==
    /\ kpc = "call"
    /\ otf_in' = fxypsf_to_otf(psf, target)
    /\ kpc' = IF otf_in'.tag = "error" THEN "raised" ELSE "returned"
    /\ UNCHANGED << img, _lambda, kappa, beta_max, pc, S, fx_padded, fy_padded,
                    beta, h_diff, v_diff, h, v, t, numer2, iters, raised, result,
                    psf, target >>

KernelNext == Convert

KernelSpec == KernelInit /\ [][KernelNext]_vars

(***************************************************************************)
(* Properties                                                              *)
(***************************************************************************)
Shape3 == Len(img.shape) = 3
NN == img.shape[1]
MM == img.shape[2]
CC == img.shape[3]

\* C1: every call that returns hands back an array of exactly the shape of
\* img, never an empty value.
C1_ReturnsSameShape ==
    pc = "done" => (result.tag = "tensor" /\ result.shape = img.shape)

RECURSIVE StepsToReach(_, _, _)
\* the least n >= 0 with b * k^n >= bmax, i.e. ceil(log_k(bmax / b)) when bmax >= b
StepsToReach(b, k, bmax) ==
    IF b >= bmax THEN 0 ELSE 1 + StepsToReach(b * k, k, bmax)

\* C2: a run that returns has executed the loop body exactly
\* ceil(log_kappa(beta_max / (2 * _lambda))) times.
C2_IterationCount ==
    pc = "done" => iters = StepsToReach(2 * _lambda, kappa, beta_max)

\* how far the call is from having left the function: 0 once it returned or
\* raised, 1 at the loop test that fails, 4 at a loop test that succeeds
Rank ==
    IF pc = "call" THEN 6
    ELSE IF pc = "start" THEN 5
    ELSE IF pc = "while" /\ beta < beta_max THEN 4
    ELSE IF pc = "hv" THEN 3
    ELSE IF pc = "thresholded" THEN 2
    ELSE IF pc = "while" THEN 1
    ELSE 0

ExpectedPadded(kernel, shape) ==
    LET horizontal == kernel.shape = <<1, 2>>
        k0 == kernel.at[<<0, 0>>]
        k1 == IF horizontal THEN kernel.at[<<0, 1>>] ELSE kernel.at[<<1, 0>>]
        far == IF horizontal THEN <<0, shape[2] - 1>> ELSE <<shape[1] - 1, 0>>
    IN [x \in Idx(shape) |->
          IF x = <<0, 0>> THEN k1 ELSE IF x = far THEN k0 ELSE 0]

\* C4: for a 1x2 or 2x1 kernel [k0, k1] the array handed to the 2-D FFT has k1
\* at (0,0), k0 at (0,W-1) resp. (H-1,0), and zero everywhere else.
C4_RolledKernel ==
    (kpc = "returned" /\ psf.shape \in { <<1, 2>>, <<2, 1>> })
        => otf_in.at = ExpectedPadded(psf, target)

\* C5: a kernel whose shape is neither (1,2) nor (2,1) makes the converter
\* fail; no array reaches the FFT.
C5_InvalidKernelShape ==
    (kpc # "call" /\ psf.shape \notin { <<1, 2>>, <<2, 1>> })
        => (kpc = "raised" /\ otf_in.tag = "error")

\* C6: an img that is not 3-dimensional or has an axis of length zero makes
\* the call fail before the loop: the body is never entered and nothing is
\* returned.
C6_InvalidImageFailsFast ==
    (pc # "call" /\ (~Shape3 \/ \E k \in 1 .. Len(img.shape) : img.shape[k] = 0))
        => (iters = 0 /\ pc \in {"start", "raised"})

\* s solves (I + b * (Dh^T Dh + Dv^T Dv)) s = image + b * rhs with the circular
\* forward differences Dh, Dv: the spatial form of
\* s = real(IFFT2D((FFT2D(image) + b * FFT2D(rhs)) / (1 + b * denom2))),
\* b in hundredths
SolvesImageSubproblem(s, b, image, rhs) ==
    /\ s.shape = image.shape
    /\ \A x \in Idx(image.shape) :
         LET n == image.shape[1]
             m == image.shape[2]
             right == s.at[[x EXCEPT ![2] = (x[2] + 1) % m]]
             left == s.at[[x EXCEPT ![2] = (x[2] + m - 1) % m]]
             down == s.at[[x EXCEPT ![1] = (x[1] + 1) % n]]
             up == s.at[[x EXCEPT ![1] = (x[1] + n - 1) % n]]
         IN 100 * s.at[x] + b * (4 * s.at[x] - right - left - down - up)
              = 100 * image.at[x] + b * rhs.at[x]

\* C7: the step that builds numer2 also replaces S by the solution of the
\* image subproblem for the beta of that iteration.
C7_ImageUpdate ==
    [][pc = "thresholded" => SolvesImageSubproblem(S', beta, img, numer2')]_vars

\* t[i,j] recomputed from the differences before thresholding (quarters)
EnergyAt(i, j) ==
    SumTo([c \in 0 .. (CC - 1) |->
             h_diff.at[<<i, j, c>>] * h_diff.at[<<i, j, c>>]
               + v_diff.at[<<i, j, c>>] * v_diff.at[<<i, j, c>>]], CC)

C10_Numer2 ==
    (pc \in {"while", "done"} /\ iters >= 1) =>
        /\ numer2.shape = S.shape
        /\ \A i \in 0 .. (NN - 1), j \in 0 .. (MM - 1), c \in 0 .. (CC - 1) :
             numer2.at[<<i, j, c>>] =
                 (IF j = 0
                  THEN h.at[<<i, MM - 1, c>>] - h.at[<<i, 0, c>>]
                  ELSE 0 - (h.at[<<i, j, c>>] - h.at[<<i, j - 1, c>>]))
               + (IF i = 0
                  THEN v.at[<<NN - 1, j, c>>] - v.at[<<0, j, c>>]
                  ELSE 0 - (v.at[<<i, j, c>>] - v.at[<<i - 1, j, c>>]))

\* numer2 was built from an h whose wrap term and whose inner backward
\* difference are both non-zero, in a 3-column image
C10_Witness ==
    /\ pc = "while"
    /\ iters >= 1
    /\ MM = 3
    /\ \E i \in 0 .. (NN - 1) :
         /\ h.at[<<i, MM - 1, 0>>] # h.at[<<i, 0, 0>>]
         /\ h.at[<<i, 1, 0>>] # h.at[<<i, 0, 0>>]
         /\ numer2.at[<<i, 0, 0>>] # 0

====
